---- MODULE Spec2Model ----
(***************************************************************************)
(* FinMark preprocessing pipeline (scripts/preprocess_raw_data.py):        *)
(*   read_csv -> validate_schema -> unpivot_data (wide tables only)        *)
(*            -> clean_and_validate_data -> save_data                      *)
(* A DataFrame is modelled as an ordered list of column names and an       *)
(* ordered list of rows, each row a function from the column names to      *)
(* cells.  A cell is a tagged value: missing (NaN), text, or a number.     *)
(***************************************************************************)
EXTENDS Integers, Sequences, FiniteSets, TLC

VARIABLES
  pc,             \* position of main(): start, validated, unpivoted, cleaned, saved, failed
  raw_df,         \* main's raw_df / validated_df (one object, line 148)
  processed_df,   \* main's processed_df, the table handed to the cleaner
  cleaned_df,     \* main's cleaned_df
  valid_regions,  \* clean_and_validate_data's local valid_regions (line 99)
  log,            \* the WARNING lines printed so far
  output_path,    \* main's output_file (sys.argv[2], line 172)
  out,            \* the table written by save_data, or NoFile
  err             \* the exception caught by main, or "none"

vars == <<pc, raw_df, processed_df, cleaned_df, valid_regions, log, output_path, out, err>>

----------------------------------------------------------------------------
(* Cells.  A number n + 0.5 is written with half = 1 (only for n >= 0).    *)

NaN == [k |-> "nan", s |-> "", n |-> 0, half |-> 0]
Str(t) == [k |-> "str", s |-> t, n |-> 0, half |-> 0]
Num(i) == [k |-> "num", s |-> "", n |-> i, half |-> 0]
NumHalf(i) == [k |-> "num", s |-> "", n |-> i, half |-> 1]

isna(c) == c.k = "nan"
notna(c) == c.k # "nan"
isinstance_str(c) == c.k = "str"

\* A number as a CSV file writes it, and the reverse for the numbers the
\* tables of this model hold; any other text denotes no number.
ParseInts == {-5, -1, 0, 1, 2, 5, 7, 10, 100, 500}
NumberCells == {Num(i) : i \in ParseInts} \cup {NumHalf(i) : i \in {j \in ParseInts : j >= 0}}
num_text(c) == ToString(c.n) \o (IF c.half = 1 THEN ".5" ELSE "")
ParseTable == {<<num_text(c), c>> : c \in NumberCells}
parse_number(t) ==
  LET hits == {p \in ParseTable : p[1] = t}
  IN  IF hits = {} THEN NaN ELSE (CHOOSE p \in hits : TRUE)[2]

----------------------------------------------------------------------------
(* Generic helpers on sequences and tables.                                *)

Range(q) == {q[i] : i \in DOMAIN q}

RECURSIVE Concat(_)
Concat(qq) == IF qq = <<>> THEN <<>> ELSE Head(qq) \o Concat(Tail(qq))

RECURSIVE SeqsUpTo(_, _)
SeqsUpTo(S, n) ==
  IF n = 0 THEN {<<>>}
  ELSE LET shorter == SeqsUpTo(S, n - 1)
       IN  shorter \cup {Append(q, x) : q \in {r \in shorter : Len(r) = n - 1}, x \in S}

\* The elements of q that are not in `seen`, once each, in order of appearance.
RECURSIVE NewInOrder(_, _)
NewInOrder(q, seen) ==
  IF q = <<>> THEN <<>>
  ELSE IF Head(q) \in seen THEN NewInOrder(Tail(q), seen)
       ELSE <<Head(q)>> \o NewInOrder(Tail(q), seen \cup {Head(q)})

HasCol(t, c) == c \in Range(t.cols)
\* DataFrame.empty: no rows or no columns.
empty(t) == Len(t.rows) = 0 \/ Len(t.cols) = 0

----------------------------------------------------------------------------
(* Module constants, lines 6-7.                                            *)

ID_VARS == <<"date", "users_active", "total_sales", "new_customers", "report_generated">>
FINAL_COLUMNS == ID_VARS \o <<"region", "regional_sales", "product_id">>

\* col.startswith('col_'), line 34.
startswith_col(c) == Len(c) >= 4 /\ SubSeq(c, 1, 4) = "col_"

\* is_wide_format, lines 9-11.
is_wide_format(t) == HasCol(t, "col_6")

----------------------------------------------------------------------------
(* pd.read_csv, line 145: a column is numeric when every cell present in   *)
(* it reads as a number; otherwise every cell present in it is a text.     *)

numeric_text(c) == isinstance_str(c) /\ notna(parse_number(c.s))

object_column(file, col) ==
  \E i \in DOMAIN file.rows :
     isinstance_str(file.rows[i][col]) /\ ~numeric_text(file.rows[i][col])

read_cell(c, as_object) ==
  IF isna(c) THEN c
  ELSE IF as_object THEN (IF isinstance_str(c) THEN c ELSE Str(num_text(c)))
  ELSE IF isinstance_str(c) THEN parse_number(c.s) ELSE c

read_csv(file) ==
  [cols |-> file.cols,
   rows |-> [i \in DOMAIN file.rows |->
               [c \in DOMAIN file.rows[i] |->
                  read_cell(file.rows[i][c], object_column(file, c))]]]

----------------------------------------------------------------------------
(* validate_schema, lines 13-23: every absent identifying column is        *)
(* appended, filled with 0, and a warning is printed for it.               *)

missing_id_vars(t) == SelectSeq(ID_VARS, LAMBDA c : ~HasCol(t, c))

validate_schema(t) ==
  LET add == missing_id_vars(t)
      newcols == t.cols \o add
  IN  [df  |-> [cols |-> newcols,
                rows |-> [i \in DOMAIN t.rows |->
                            [c \in Range(newcols) |->
                               IF c \in Range(t.cols) THEN t.rows[i][c] ELSE Num(0)]]],
       log |-> [i \in DOMAIN add |-> [pass |-> "schema", col |-> add[i], count |-> 0]]]

----------------------------------------------------------------------------
(* unpivot_data, lines 25-73.                                              *)

NoParts == [c \in {} |-> NaN]

\* A scan that lets a later number overwrite the product id.
number_cell_overwrite(parts, value) ==
  IF "region" \notin DOMAIN parts THEN parts
  ELSE IF "regional_sales" \notin DOMAIN parts
       THEN ("regional_sales" :> value) @@ parts
       ELSE ("product_id" :> value) @@ parts

\* A scan that takes the first number as the product id and the second as the sales.
number_cell_swapped(parts, value) ==
  IF "region" \notin DOMAIN parts THEN parts
  ELSE IF "product_id" \notin DOMAIN parts
       THEN ("product_id" :> value) @@ parts
       ELSE IF "regional_sales" \notin DOMAIN parts
            THEN ("regional_sales" :> value) @@ parts
            ELSE parts

\* lines 57-63: a number once a region is held; the first is the sales, the
\* second the product id, any later one is dropped.
number_cell(parts, value) ==
  IF "region" \notin DOMAIN parts THEN parts
  ELSE IF "regional_sales" \notin DOMAIN parts
       THEN ("regional_sales" :> value) @@ parts
       ELSE IF "product_id" \notin DOMAIN parts
            THEN ("product_id" :> value) @@ parts
            ELSE parts

\* lines 52-54 and 67-69: record = base_data.copy(); record.update(parts).
flush(base_data, parts) == parts @@ base_data

\* lines 43-63: one cell of the scan; st = [recs, parts].
scan_cell(st, base_data, value) ==
  IF isna(value) THEN st
  ELSE IF isinstance_str(value)
       THEN [recs  |-> IF "region" \in DOMAIN st.parts
                       THEN Append(st.recs, flush(base_data, st.parts))
                       ELSE st.recs,
             parts |-> ("region" :> value)]
       ELSE [recs |-> st.recs, parts |-> number_cell(st.parts, value)]

RECURSIVE scan_cells(_, _, _)
scan_cells(st, base_data, cells) ==
  IF cells = <<>> THEN st
  ELSE scan_cells(scan_cell(st, base_data, Head(cells)), base_data, Tail(cells))

\* lines 37-69: the records of one row.
unpivot_row(row, id_vars_present, regional_cols) ==
  LET base_data == [c \in Range(id_vars_present) |-> row[c]]
      cells == [i \in DOMAIN regional_cols |-> row[regional_cols[i]]]
      st == scan_cells([recs |-> <<>>, parts |-> NoParts], base_data, cells)
  IN  IF "region" \in DOMAIN st.parts
      THEN Append(st.recs, flush(base_data, st.parts))
      ELSE st.recs

\* The keys of a record in dict insertion order.
record_keys(rec, id_vars_present) ==
  SelectSeq(id_vars_present \o <<"region", "regional_sales", "product_id">>,
            LAMBDA c : c \in DOMAIN rec)

\* pd.DataFrame(list of dicts), line 71: the columns are the keys in order of
\* first appearance; a key a record lacks is NaN in its row.
DataFrame(recs, id_vars_present) ==
  LET cols == NewInOrder(Concat([i \in DOMAIN recs |-> record_keys(recs[i], id_vars_present)]), {})
  IN  [cols |-> cols,
       rows |-> [i \in DOMAIN recs |->
                   [c \in Range(cols) |-> IF c \in DOMAIN recs[i] THEN recs[i][c] ELSE NaN]]]

unpivot_data(t) ==
  LET id_vars_present == SelectSeq(ID_VARS, LAMBDA c : HasCol(t, c))
      regional_cols == SelectSeq(t.cols, startswith_col)
      recs == Concat([i \in DOMAIN t.rows |-> unpivot_row(t.rows[i], id_vars_present, regional_cols)])
  IN  DataFrame(recs, id_vars_present)

----------------------------------------------------------------------------
(* clean_and_validate_data, lines 75-133.                                  *)

\* Texts pd.to_datetime parses; every other text is coerced to missing.
DateTexts == {"2024-01-01", "2024-01-02"}

\* pd.to_datetime(x, errors='coerce').isnull(), line 89: a missing cell and a
\* text that is no date are null; a number is a timestamp.
to_datetime_isnull(c) == isna(c) \/ (isinstance_str(c) /\ c.s \notin DateTexts)

\* pd.to_numeric(x, errors='coerce'), lines 112 and 121.
to_numeric(c) == IF isinstance_str(c) THEN parse_number(c.s) ELSE c

\* value.astype(int), line 130: the fraction is cut off.
astype_int(c) == [c EXCEPT !.half = 0]

Warning(pass, col, count) == [pass |-> pass, col |-> col, count |-> count]

\* A boolean mask over the rows is the set of row numbers where it holds:
\* df[mask] keeps those rows, in order.
RECURSIVE rows_at(_, _, _)
rows_at(rows, mask, i) ==
  IF i > Len(rows) THEN <<>>
  ELSE (IF i \in mask THEN <<rows[i]>> ELSE <<>>) \o rows_at(rows, mask, i + 1)

\* line 89.
invalid_date_mask(t) == {i \in DOMAIN t.rows : to_datetime_isnull(t.rows[i]["date"])}

\* A date pass that keeps the reported rows and drops the others.
date_repair_keeps_invalid(t) ==
  LET mask == invalid_date_mask(t)
  IN  IF mask # {}
      THEN [df  |-> [cols |-> t.cols, rows |-> rows_at(t.rows, mask, 1)],
            log |-> <<Warning("date", "date", Cardinality(mask))>>]
      ELSE [df |-> t, log |-> <<>>]

\* lines 88-94: the rows whose date is null are reported and dropped.
date_repair(t) ==
  LET mask == invalid_date_mask(t)
  IN  IF mask # {}
      THEN [df  |-> [cols |-> t.cols, rows |-> rows_at(t.rows, DOMAIN t.rows \ mask, 1)],
            log |-> <<Warning("date", "date", Cardinality(mask))>>]
      ELSE [df |-> t, log |-> <<>>]

\* df['region'].value_counts(): the count of every non-missing value.
value_count(t, v) == Cardinality({i \in DOMAIN t.rows : t.rows[i]["region"] = v})
region_values(t) == {t.rows[i]["region"] : i \in DOMAIN t.rows} \ {NaN}

FOUR == 4

\* .nlargest(4).index, line 99: at most 4 values, none less frequent than a
\* value left out.  Which of several equally frequent values is taken depends
\* on the sort underneath value_counts, so every such choice is an outcome.
nlargest_sets(t) ==
  LET vals == region_values(t)
      n == IF Cardinality(vals) < FOUR THEN Cardinality(vals) ELSE FOUR
  IN  {S \in SUBSET vals :
         /\ Cardinality(S) = n
         /\ \A a \in S, b \in vals \ S : value_count(t, a) >= value_count(t, b)}

\* line 98: 'region' in df.columns and not df['region'].empty
has_region(t) == HasCol(t, "region") /\ Len(t.rows) > 0

valid_region_choices(t) == IF has_region(t) THEN nlargest_sets(t) ELSE {{}}

\* A mask without the notna() term: missing regions count as unexpected.
invalid_region_with_missing(r, valid) == r["region"] \notin valid

\* line 100: ~df['region'].isin(valid_regions) & df['region'].notna()
invalid_region(r, valid) == r["region"] \notin valid /\ notna(r["region"])

\* lines 96-106.
region_repair(t, valid) ==
  IF ~has_region(t) THEN [df |-> t, log |-> <<>>]
  ELSE LET mask == {i \in DOMAIN t.rows : invalid_region(t.rows[i], valid)}
       IN  IF mask # {}
           THEN [df  |-> [cols |-> t.cols,
                          rows |-> [i \in DOMAIN t.rows |->
                                      IF i \in mask
                                      THEN [t.rows[i] EXCEPT !["region"] = Str("Unknown")]
                                      ELSE t.rows[i]]],
                 log |-> <<Warning("region", "region", Cardinality(mask))>>]
           ELSE [df |-> t, log |-> <<>>]

numeric_cols == <<"users_active", "total_sales", "new_customers", "regional_sales", "product_id">>

\* lines 111-121 for one column: the cells that are present and not numeric
\* are reported; the column is coerced.
numeric_repair_col(st, col) ==
  IF ~HasCol(st.df, col) THEN st
  ELSE LET corrupted == {i \in DOMAIN st.df.rows :
                              isna(to_numeric(st.df.rows[i][col])) /\ notna(st.df.rows[i][col])}
           cnt == Cardinality(corrupted)
       IN  [df  |-> [cols |-> st.df.cols,
                     rows |-> [i \in DOMAIN st.df.rows |->
                                 [st.df.rows[i] EXCEPT ![col] = to_numeric(@)]]],
            log |-> st.log \o (IF cnt > 0 THEN <<Warning("numeric", col, cnt)>> ELSE <<>>)]

RECURSIVE numeric_repair_from(_, _)
numeric_repair_from(st, i) ==
  IF i > Len(numeric_cols) THEN st
  ELSE numeric_repair_from(numeric_repair_col(st, numeric_cols[i]), i + 1)

\* lines 108-121.
numeric_repair(t) == numeric_repair_from([df |-> t, log |-> <<>>], 1)

\* The fill values of lines 124-127.
FillColumns == {"regional_sales", "product_id", "users_active", "total_sales",
                "new_customers", "region"}
fill_value(col) ==
  IF col = "product_id" THEN Num(-1)
  ELSE IF col = "region" THEN Str("Unknown")
  ELSE Num(0)

\* df.fillna({...}), lines 124-127: only columns the table has are filled.
fillna(t) ==
  [cols |-> t.cols,
   rows |-> [i \in DOMAIN t.rows |->
               [c \in DOMAIN t.rows[i] |->
                  IF c \in FillColumns /\ isna(t.rows[i][c]) THEN fill_value(c)
                  ELSE t.rows[i][c]]]]

int_cols == <<"product_id", "users_active", "new_customers">>

\* lines 129-130: df[col] raises KeyError for a column the table lacks.
astype_int_cols(t) ==
  LET absent == SelectSeq(int_cols, LAMBDA c : ~HasCol(t, c))
  IN  IF absent # <<>>
      THEN [ok |-> FALSE, err |-> "KeyError", key |-> absent[1], df |-> t]
      ELSE [ok |-> TRUE, err |-> "none", key |-> "",
            df |-> [cols |-> t.cols,
                    rows |-> [i \in DOMAIN t.rows |->
                                [c \in DOMAIN t.rows[i] |->
                                   IF c \in Range(int_cols) THEN astype_int(t.rows[i][c])
                                   ELSE t.rows[i][c]]]]]

\* The whole function, with valid_regions the set line 99 computed.
clean_and_validate_data(df_in, valid) ==
  IF empty(df_in)
  THEN [ok |-> TRUE, err |-> "none", key |-> "", df |-> df_in,
        log |-> <<Warning("empty", "", 0)>>]
  ELSE IF ~HasCol(df_in, "date")
  THEN [ok |-> FALSE, err |-> "KeyError", key |-> "date", df |-> df_in, log |-> <<>>]
  ELSE LET d == date_repair(df_in)
           g == region_repair(d.df, valid)
           m == numeric_repair(g.df)
           a == astype_int_cols(fillna(m.df))
       IN  [ok |-> a.ok, err |-> a.err, key |-> a.key, df |-> a.df,
            log |-> d.log \o g.log \o m.log]

\* The sets line 99 can compute for df_in.
clean_choices(df_in) ==
  IF empty(df_in) \/ ~HasCol(df_in, "date") THEN {{}}
  ELSE valid_region_choices(date_repair(df_in).df)

----------------------------------------------------------------------------
(* save_data, lines 135-140.  Line 137 creates the directory part of the   *)
(* output path first: os.makedirs('') raises FileNotFoundError, so a path  *)
(* without a directory part fails before anything is written.  Then        *)
(* df[FINAL_COLUMNS] (line 139) raises KeyError when one of the eight      *)
(* columns is absent; otherwise the eight columns are written in the fixed *)
(* order.                                                                  *)

\* The position of the last '/' of p at or before i, 0 when there is none.
RECURSIVE rfind_sep(_, _)
rfind_sep(p, i) ==
  IF i = 0 THEN 0
  ELSE IF SubSeq(p, i, i) = "/" THEN i
  ELSE rfind_sep(p, i - 1)

\* head.rstrip('/')
RECURSIVE rstrip_sep(_)
rstrip_sep(h) ==
  IF Len(h) > 0 /\ SubSeq(h, Len(h), Len(h)) = "/"
  THEN rstrip_sep(SubSeq(h, 1, Len(h) - 1))
  ELSE h

\* os.path.dirname (posixpath): everything up to the last '/', without its
\* trailing slashes unless it consists of slashes only.
dirname(p) ==
  LET head == SubSeq(p, 1, rfind_sep(p, Len(p)))
  IN  IF rstrip_sep(head) = "" THEN head ELSE rstrip_sep(head)

\* os.makedirs(d, exist_ok=True), line 137: the empty name cannot be created.
makedirs_raises(d) == d = ""

NoFile == [cols |-> <<"(no file)">>, rows |-> <<>>]

save_data(t, path) ==
  LET absent == SelectSeq(FINAL_COLUMNS, LAMBDA c : ~HasCol(t, c))
  IN  IF makedirs_raises(dirname(path))
      THEN [ok |-> FALSE, err |-> "FileNotFoundError", key |-> "", file |-> NoFile]
      ELSE IF absent # <<>>
      THEN [ok |-> FALSE, err |-> "KeyError", key |-> absent[1], file |-> NoFile]
      ELSE [ok |-> TRUE, err |-> "none", key |-> "",
            file |-> [cols |-> FINAL_COLUMNS,
                      rows |-> [i \in DOMAIN t.rows |->
                                  [c \in Range(FINAL_COLUMNS) |-> t.rows[i][c]]]]]

----------------------------------------------------------------------------
(* The tables main() is run on.                                            *)

MaxGroupCols == 6      \* group columns of a wide table
MaxRows == 6           \* rows of a long table that varies its regions
MaxDirtyRows == 2      \* rows of a long table that varies its other cells
MaxDateRows == 6       \* rows of a long table that varies which dates parse

Min(a, b) == IF a < b THEN a ELSE b

LongColumns == ID_VARS \o <<"region", "regional_sales", "product_id">>

\* A row without anomalies.
BaseRow ==
  [c \in Range(LongColumns) |->
     CASE c = "date" -> Str("2024-01-01")
       [] c = "users_active" -> Num(10)
       [] c = "total_sales" -> Num(500)
       [] c = "new_customers" -> Num(2)
       [] c = "report_generated" -> Num(1)
       [] c = "region" -> Str("East")
       [] c = "regional_sales" -> Num(100)
       [] c = "product_id" -> Num(5)]

Restrict(row, cols) == [c \in Range(cols) |-> row[c]]

\* Wide tables: the identifying columns and col_1 .. col_MaxGroupCols, one
\* row, every group cell missing, a region text or a number.  The scan does
\* not look into a text or a number, so a row introduces the texts in the
\* order of GroupTexts and the numbers in the order of GroupNumbers.
GroupCols == [i \in 1..MaxGroupCols |-> "col_" \o ToString(i)]
GroupTexts == <<"East", "West">>
GroupNumbers == <<100, 5>>

next_cells(q) ==
  LET texts == Cardinality({c \in Range(q) : isinstance_str(c)})
      numbers == Cardinality({c \in Range(q) : notna(c) /\ ~isinstance_str(c)})
  IN  {NaN}
      \cup {Str(GroupTexts[j]) : j \in 1..Min(Len(GroupTexts), texts + 1)}
      \cup {Num(GroupNumbers[j]) : j \in 1..Min(Len(GroupNumbers), numbers + 1)}

AllGroupCells ==
  {NaN} \cup {Str(GroupTexts[j]) : j \in DOMAIN GroupTexts}
        \cup {Num(GroupNumbers[j]) : j \in DOMAIN GroupNumbers}

RECURSIVE group_cells(_)
group_cells(n) ==
  IF n = 0 THEN {<<>>}
  ELSE {q \in {Append(r, x) : r \in group_cells(n - 1), x \in AllGroupCells} :
          q[n] \in next_cells(SubSeq(q, 1, n - 1))}

WideRow(cells) ==
  [c \in Range(ID_VARS) \cup Range(GroupCols) |->
     IF c \in Range(ID_VARS) THEN BaseRow[c]
     ELSE cells[CHOOSE i \in DOMAIN GroupCols : GroupCols[i] = c]]

WideTables ==
  {[cols |-> ID_VARS \o GroupCols, rows |-> <<WideRow(cells)>>] :
     cells \in group_cells(MaxGroupCols)}

\* Wide tables of two rows.
PadCells(cells) == cells \o [i \in 1..(MaxGroupCols - Len(cells)) |-> NaN]
WideSampleRows ==
  {WideRow(PadCells(<<Str("East"), Num(100), Num(5)>>)),
   WideRow(PadCells(<<Str("West"), NaN, Num(5)>>)),
   WideRow(PadCells(<<NaN, Num(100), NaN>>)),
   WideRow(PadCells(<<Num(100), NaN, NaN>>))}
WideTables2 ==
  {[cols |-> ID_VARS \o GroupCols, rows |-> <<r1, r2>>] :
     r1 \in WideSampleRows, r2 \in WideSampleRows}

\* Long tables that vary the region column: region names are opaque to the
\* program, so a column introduces them in the order of RegionNames.
RegionNames == <<"East", "West", "North", "South", "Atlantis">>

next_regions(q) ==
  {NaN} \cup {Str(RegionNames[j]) :
                j \in 1..Min(Len(RegionNames), Cardinality(Range(q) \ {NaN}) + 1)}

AllRegions == {NaN} \cup {Str(RegionNames[j]) : j \in DOMAIN RegionNames}

RECURSIVE region_columns(_)
region_columns(n) ==
  IF n = 0 THEN {<<>>}
  ELSE {q \in {Append(r, x) : r \in region_columns(n - 1), x \in AllRegions} :
          q[n] \in next_regions(SubSeq(q, 1, n - 1))}

RegionTables ==
  {[cols |-> LongColumns,
    rows |-> [i \in DOMAIN q |-> [BaseRow EXCEPT !["region"] = q[i]]]] :
     q \in UNION {region_columns(n) : n \in 1..MaxRows}}

\* Long tables that vary the other cells: each row is BaseRow with at most
\* one cell changed.
DirtyCells ==
  {<<"date", Str("not-a-date")>>, <<"date", NaN>>,
   <<"region", NaN>>, <<"region", Str("West")>>,
   <<"regional_sales", NaN>>, <<"regional_sales", Str("twelve")>>,
   <<"regional_sales", Str("7")>>, <<"regional_sales", Num(-5)>>,
   <<"regional_sales", Num(0)>>,
   <<"product_id", NaN>>, <<"product_id", Str("twelve")>>,
   <<"product_id", Num(-1)>>, <<"product_id", NumHalf(2)>>,
   <<"total_sales", Str("twelve")>>, <<"users_active", NaN>>,
   <<"new_customers", Str("twelve")>>}

DirtyRows == {BaseRow} \cup {[BaseRow EXCEPT ![d[1]] = d[2]] : d \in DirtyCells}

DirtyTables ==
  {[cols |-> LongColumns, rows |-> q] : q \in SeqsUpTo(DirtyRows, MaxDirtyRows)}

\* Long tables that vary which rows have a date that parses.  Every row has
\* its own users_active and its own date, so the rows that stay can be told
\* apart; a region stands twice among the rows at DateRegions' repeats, so
\* whether those rows are counted decides the four most frequent regions.  A
\* row whose date does not parse (a text that is no date at odd positions, an
\* empty cell at even ones) also carries one of DroppedRowCells.
RowTags == <<1, 2, 5, 7, 10, 100, 500>>
DateRegions == <<"East", "Atlantis", "West", "Atlantis", "North", "South", "East">>
DroppedRowCells ==
  {<<"regional_sales", Num(100)>>, <<"regional_sales", Str("twelve")>>,
   <<"product_id", Str("twelve")>>}

DateRow(i, bad, d) ==
  LET r == [BaseRow EXCEPT !["users_active"] = Num(RowTags[i]),
                           !["region"] = Str(DateRegions[i]),
                           !["date"] = Str(IF i % 2 = 1 THEN "2024-01-01" ELSE "2024-01-02")]
  IN  IF bad
      THEN [r EXCEPT !["date"] = IF i % 2 = 1 THEN Str("not-a-date") ELSE NaN,
                     ![d[1]] = d[2]]
      ELSE r

DateTables ==
  UNION {{[cols |-> LongColumns,
           rows |-> [i \in 1..n |-> DateRow(i, i \in bad, d)]] :
            bad \in SUBSET (1..n), d \in DroppedRowCells} :
         n \in 1..Min(MaxDateRows, Len(RowTags))}

\* Tables that lack columns: any of region, regional_sales, product_id, and
\* at most one identifying column; with and without col_6.
DroppedIdVars == {"", "date", "users_active", "report_generated"}

without(cols, drop) == SelectSeq(cols, LAMBDA c : c \notin drop)

HeaderTables ==
  {[cols |-> without(LongColumns, drop \cup {d}),
    rows |-> <<Restrict(BaseRow, without(LongColumns, drop \cup {d}))>>] :
     drop \in SUBSET {"region", "regional_sales", "product_id"}, d \in DroppedIdVars}
  \cup
  {[cols |-> without(ID_VARS \o GroupCols, {d}),
    rows |-> <<Restrict(WideRow(PadCells(<<Str("East"), Num(100), Num(5)>>)),
                        without(ID_VARS \o GroupCols, {d}))>>] : d \in DroppedIdVars}
  \cup
  {[cols |-> ID_VARS \o SubSeq(GroupCols, 1, 3),
    rows |-> <<Restrict(WideRow(PadCells(<<Str("East"), Num(100), Num(5)>>)),
                        ID_VARS \o SubSeq(GroupCols, 1, 3))>>]}

\* The files main() is given, and the tables read_csv makes of them.
Files ==
  WideTables \cup WideTables2 \cup RegionTables \cup DirtyTables \cup DateTables
    \cup HeaderTables
Inputs == {read_csv(f) : f \in Files}

\* The output paths main() is given: with a directory part, and a bare name.
OutputPaths == {"data/processed/cleaned.csv", "cleaned.csv"}

----------------------------------------------------------------------------
(* main(), lines 142-166.                                                  *)

\* A local of main that is not assigned yet.
Unset == [cols |-> <<"(unset)">>, rows |-> <<>>]

Init ==
  /\ raw_df \in Inputs
  /\ output_path \in OutputPaths
  /\ processed_df = Unset
  /\ cleaned_df = Unset
  /\ pc = "start"
  /\ valid_regions = {}
  /\ log = <<>>
  /\ out = NoFile
  /\ err = "none"

\* line 148; validate_schema adds the columns to raw_df itself.
ValidateSchema ==
  /\ pc = "start"
  /\ raw_df' = validate_schema(raw_df).df
  /\ log' = log \o validate_schema(raw_df).log
  /\ pc' = "validated"
  /\ UNCHANGED <<processed_df, cleaned_df, valid_regions, output_path, out, err>>

\* lines 151-152.
Unpivot ==
  /\ pc = "validated"
  /\ is_wide_format(raw_df)
  /\ processed_df' = unpivot_data(raw_df)
  /\ pc' = "unpivoted"
  /\ UNCHANGED <<raw_df, cleaned_df, valid_regions, log, output_path, out, err>>

\* lines 153-155.
SkipUnpivot ==
  /\ pc = "validated"
  /\ ~is_wide_format(raw_df)
  /\ processed_df' = raw_df
  /\ pc' = "unpivoted"
  /\ UNCHANGED <<raw_df, cleaned_df, valid_regions, log, output_path, out, err>>

\* line 158, the call returns.
Clean ==
  /\ pc = "unpivoted"
  /\ \E valid \in clean_choices(processed_df) :
       LET r == clean_and_validate_data(processed_df, valid)
       IN  /\ r.ok
           /\ cleaned_df' = r.df
           /\ log' = log \o r.log
           /\ valid_regions' = valid
  /\ pc' = "cleaned"
  /\ UNCHANGED <<raw_df, processed_df, output_path, out, err>>

\* line 158 raises, lines 165-166 catch it.
CleanRaises ==
  /\ pc = "unpivoted"
  /\ \E valid \in clean_choices(processed_df) :
       LET r == clean_and_validate_data(processed_df, valid)
       IN  /\ ~r.ok
           /\ err' = r.err
           /\ log' = log \o r.log
           /\ valid_regions' = valid
  /\ pc' = "failed"
  /\ UNCHANGED <<raw_df, processed_df, cleaned_df, output_path, out>>

\* line 161, the call returns.
Save ==
  /\ pc = "cleaned"
  /\ save_data(cleaned_df, output_path).ok
  /\ out' = save_data(cleaned_df, output_path).file
  /\ pc' = "saved"
  /\ UNCHANGED <<raw_df, processed_df, cleaned_df, valid_regions, log, output_path, err>>

\* line 161 raises: a FileNotFoundError is caught at lines 163-164, anything
\* else at lines 165-166; no file is written.
SaveRaises ==
  /\ pc = "cleaned"
  /\ ~save_data(cleaned_df, output_path).ok
  /\ err' = save_data(cleaned_df, output_path).err
  /\ pc' = "failed"
  /\ UNCHANGED <<raw_df, processed_df, cleaned_df, valid_regions, log, output_path, out>>

Next ==
  \/ ValidateSchema
  \/ Unpivot
  \/ SkipUnpivot
  \/ Clean
  \/ CleanRaises
  \/ Save
  \/ SaveRaises

Spec == Init /\ [][Next]_vars

----------------------------------------------------------------------------
(* Reading a wide row as the specification does: a group is a text cell    *)
(* and the numbers that follow it up to the next text cell.                *)

is_number(c) == notna(c) /\ ~isinstance_str(c)

regional_cols_of(t) == SelectSeq(t.cols, startswith_col)
cells_of(t, r) == [i \in DOMAIN regional_cols_of(t) |-> t.rows[r][regional_cols_of(t)[i]]]

text_positions(cells) == {i \in DOMAIN cells : isinstance_str(cells[i])}

\* The position after the group that the text cell at i opens.
group_end(cells, i) ==
  LET later == {j \in text_positions(cells) : j > i}
  IN  IF later = {} THEN Len(cells) + 1
      ELSE CHOOSE j \in later : \A m \in later : j <= m

group_numbers(cells, i) == SelectSeq(SubSeq(cells, i + 1, group_end(cells, i) - 1), is_number)

complete_groups(cells) == {i \in text_positions(cells) : Len(group_numbers(cells, i)) >= 2}

\* The groups of a table: <<row, position of the text cell>>.
groups_of(t) == {<<r, i>> : r \in DOMAIN t.rows, i \in 1..Len(regional_cols_of(t))}
all_groups(t) == {g \in groups_of(t) : g[2] \in text_positions(cells_of(t, g[1]))}
all_complete_groups(t) == {g \in groups_of(t) : g[2] \in complete_groups(cells_of(t, g[1]))}

\* The record a complete group stands for.
group_record(t, g) ==
  LET cells == cells_of(t, g[1])
  IN  [c \in Range(FINAL_COLUMNS) |->
         CASE c = "region" -> cells[g[2]]
           [] c = "regional_sales" -> group_numbers(cells, g[2])[1]
           [] c = "product_id" -> group_numbers(cells, g[2])[2]
           [] OTHER -> t.rows[g[1]][c]]

unpivoted == pc = "unpivoted" /\ is_wide_format(raw_df)

\* A number cell that no group takes: before the first text cell of its row,
\* or after two numbers of its group.
surplus_positions(cells) ==
  {p \in DOMAIN cells :
     /\ is_number(cells[p])
     /\ LET before == {i \in text_positions(cells) : i < p}
        IN  \/ before = {}
            \/ LET i == CHOOSE j \in before : \A m \in before : m <= j
               IN  Len(SelectSeq(SubSeq(cells, i + 1, p - 1), is_number)) >= 2}

leading_numbers(cells) ==
  {p \in surplus_positions(cells) : {i \in text_positions(cells) : i < p} = {}}

\* The table with one group cell blanked.
blank_cell(t, r, p) ==
  [t EXCEPT !.rows[r][regional_cols_of(t)[p]] = NaN]

\* A row that holds a region text, an empty sales cell, a number, and nothing else.
shifted_row(cells) ==
  /\ Len(cells) >= 3
  /\ isinstance_str(cells[1]) /\ isna(cells[2]) /\ is_number(cells[3])
  /\ \A i \in 4..Len(cells) : isna(cells[i])

cell_or_nan(row, c) == IF c \in DOMAIN row THEN row[c] ELSE NaN

----------------------------------------------------------------------------
(* C1: a wide row holding a region text, an empty sales cell and a number  *)
(* n gives exactly one record, whose product_id is n and whose             *)
(* regional_sales is left missing by the unpivoter (0 after cleaning): the *)
(* number of the product-id position never becomes the regional_sales.     *)
C1_ShiftedRowKeepsProductId ==
  /\ (unpivoted /\ Len(raw_df.rows) = 1 /\ shifted_row(cells_of(raw_df, 1))) =>
     /\ Len(processed_df.rows) = 1
     /\ processed_df.rows[1]["region"] = cells_of(raw_df, 1)[1]
     /\ cell_or_nan(processed_df.rows[1], "product_id") = cells_of(raw_df, 1)[3]
     /\ isna(cell_or_nan(processed_df.rows[1], "regional_sales"))
  /\ (pc = "cleaned" /\ is_wide_format(raw_df)) =>
       \A r \in DOMAIN raw_df.rows :
          shifted_row(cells_of(raw_df, r)) =>
             \E i \in DOMAIN cleaned_df.rows :
                /\ cleaned_df.rows[i]["region"] = cells_of(raw_df, r)[1]
                /\ cleaned_df.rows[i]["regional_sales"] = Num(0)
                /\ cleaned_df.rows[i]["product_id"] = cells_of(raw_df, r)[3]

(* C2: every complete group of a wide row (a text cell followed by two     *)
(* numbers before the next text cell) gives exactly one record, carrying   *)
(* the row's identifying fields, the region, the first number as           *)
(* regional_sales and the second as product_id.                            *)
C2_CompleteGroupOneRecord ==
  unpivoted =>
     \A g \in all_complete_groups(raw_df) :
        LET e == group_record(raw_df, g)
        IN  Cardinality({i \in DOMAIN processed_df.rows : processed_df.rows[i] = e})
              = Cardinality({h \in all_complete_groups(raw_df) : group_record(raw_df, h) = e})

\* C2's case: a row with two complete groups of different regions has been unpivoted.
C2_Witness ==
  /\ unpivoted
  /\ \E g, h \in all_complete_groups(raw_df) :
        /\ g[1] = h[1] /\ g[2] < h[2]
        /\ group_record(raw_df, g)["region"] # group_record(raw_df, h)["region"]
        /\ group_record(raw_df, g)["regional_sales"] # group_record(raw_df, g)["product_id"]

(* C3: a wide table none of whose rows holds a complete group gives no     *)
(* record at all.                                                          *)
C3_NoCompleteGroupNoRecord ==
  (unpivoted /\ all_complete_groups(raw_df) = {}) => Len(processed_df.rows) = 0

(* C10: in the scan of a row, a number met before any text cell and a      *)
(* third or later number of a group are dropped: blanking such a cell      *)
(* changes nothing in the unpivoted table, and the number of records is    *)
(* the number of text cells.                                               *)
C10_SurplusNumbersDiscarded ==
  unpivoted =>
     /\ Len(processed_df.rows) = Cardinality(all_groups(raw_df))
     /\ \A r \in DOMAIN raw_df.rows :
          \A p \in surplus_positions(cells_of(raw_df, r)) :
             unpivot_data(blank_cell(raw_df, r, p)) = processed_df

\* C10's case: a row with a number before its first text cell and a third
\* number in a group, different from the group's product id, was unpivoted.
C10_Witness ==
  /\ unpivoted
  /\ \E r \in DOMAIN raw_df.rows :
        LET cells == cells_of(raw_df, r)
        IN  /\ leading_numbers(cells) # {}
            /\ \E p \in surplus_positions(cells) \ leading_numbers(cells) :
                  \E i \in DOMAIN processed_df.rows :
                     /\ "product_id" \in DOMAIN processed_df.rows[i]
                     /\ notna(processed_df.rows[i]["product_id"])
                     /\ processed_df.rows[i]["product_id"] # cells[p]

----------------------------------------------------------------------------
(* Claims about the cleaner and the whole run.                             *)

cleaned == pc = "cleaned" /\ ~empty(processed_df)

\* The rows of the table handed to the cleaner whose date parses, in order.
parseable(i) == ~to_datetime_isnull(processed_df.rows[i]["date"])
RECURSIVE parseable_from(_)
parseable_from(i) ==
  IF i > Len(processed_df.rows) THEN <<>>
  ELSE (IF parseable(i) THEN <<processed_df.rows[i]>> ELSE <<>>) \o parseable_from(i + 1)
parseable_rows == parseable_from(1)
unparseable_count == Cardinality({i \in DOMAIN processed_df.rows : ~parseable(i)})
kept_df == [cols |-> processed_df.cols, rows |-> parseable_rows]

warnings_of(pass) == SelectSeq(log, LAMBDA w : w.pass = pass)

(* C4: no stage raises on any table that can be read: main never ends in   *)
(* its except branch, and what it saves has the eight output columns.      *)
C4_NeverRaises ==
  /\ pc # "failed"
  /\ err = "none"
  /\ pc = "saved" => out.cols = FINAL_COLUMNS

(* C5: in every table the cleaner returns for a non-empty input, every row *)
(* has a region, a numeric regional_sales, an integer product_id and       *)
(* users_active, total_sales and new_customers, none of them missing.      *)
C5_NoMissingAfterClean ==
  cleaned =>
     \A i \in DOMAIN cleaned_df.rows :
        LET row == cleaned_df.rows[i]
        IN  /\ notna(cell_or_nan(row, "region"))
            /\ is_number(cell_or_nan(row, "regional_sales"))
            /\ is_number(cell_or_nan(row, "product_id"))
            /\ cell_or_nan(row, "product_id").half = 0
            /\ \A c \in {"users_active", "total_sales", "new_customers"} :
                  notna(cell_or_nan(row, c))

\* A number can be recovered from a source cell.
recoverable(c) == is_number(to_numeric(c))

(* C6: in the saved table of a long-format run that dropped no row,        *)
(* product_id is -1 only where the source row has no recoverable product   *)
(* id, and regional_sales is never negative and is 0 only where the source *)
(* row has no recoverable sales value.                                     *)
C6_DefaultsOnlyWhenUnrecoverable ==
  (pc = "saved" /\ ~is_wide_format(raw_df) /\ Len(out.rows) = Len(raw_df.rows)) =>
     \A i \in DOMAIN out.rows :
        /\ out.rows[i]["product_id"] = Num(-1)
             => ~recoverable(cell_or_nan(raw_df.rows[i], "product_id"))
        /\ out.rows[i]["regional_sales"].n >= 0
        /\ out.rows[i]["regional_sales"] = Num(0)
             => ~recoverable(cell_or_nan(raw_df.rows[i], "regional_sales"))

(* C7: cleaning is idempotent: cleaning a non-empty table the cleaner      *)
(* returned gives the same table again and prints no warning, however the  *)
(* order among equally frequent regions falls.                             *)
C7_CleanIdempotent ==
  (pc = "cleaned" /\ ~empty(cleaned_df)) =>
     \E valid \in clean_choices(cleaned_df) :
        LET again == clean_and_validate_data(cleaned_df, valid)
        IN  again.ok /\ again.df = cleaned_df /\ again.log = <<>>

(* C8: the date pass drops exactly the rows whose date does not parse and  *)
(* reports how many; the rows that parse stay, in their order, and the     *)
(* region vocabulary and every later pass see only those rows: the table   *)
(* and the warnings are those of cleaning the remaining rows alone.        *)
C8_DateRepairDropsExactly ==
  cleaned =>
     /\ Len(cleaned_df.rows) = Len(parseable_rows)
     /\ \A i \in DOMAIN cleaned_df.rows :
           /\ cleaned_df.rows[i]["date"] = parseable_rows[i]["date"]
           /\ \A c \in Range(ID_VARS) :
                 (HasCol(processed_df, c) /\ is_number(parseable_rows[i][c]))
                    => cleaned_df.rows[i][c] = parseable_rows[i][c]
     /\ warnings_of("date") =
          IF unparseable_count > 0
          THEN <<Warning("date", "date", unparseable_count)>> ELSE <<>>
     /\ valid_regions \in valid_region_choices(kept_df)
     /\ parseable_rows # <<>> =>
          /\ clean_and_validate_data(kept_df, valid_regions).df = cleaned_df
          /\ SelectSeq(clean_and_validate_data(kept_df, valid_regions).log,
                       LAMBDA w : w.pass # "date")
               = SelectSeq(log, LAMBDA w : w.pass \notin {"date", "schema"})

\* C8's case: the cleaner dropped a row standing between two rows it kept;
\* the dropped row held a sales text that is no number and a region that,
\* counted with the dropped rows, is among the four most frequent and,
\* counted without them, does not occur; four regions remain, and neither
\* the region pass nor the numeric pass reported anything.
C8_Witness ==
  /\ cleaned
  /\ \E i, j, k \in DOMAIN processed_df.rows :
        /\ i < j /\ j < k
        /\ parseable(i) /\ ~parseable(j) /\ parseable(k)
        /\ processed_df.rows[i]["users_active"] # processed_df.rows[k]["users_active"]
        /\ processed_df.rows[j]["regional_sales"] = Str("twelve")
        /\ Cardinality({m \in DOMAIN processed_df.rows :
                          processed_df.rows[m]["region"] = processed_df.rows[j]["region"]}) >= 2
        /\ \A m \in DOMAIN processed_df.rows :
              processed_df.rows[m]["region"] = processed_df.rows[j]["region"] => ~parseable(m)
  /\ Len(cleaned_df.rows) = 4
  /\ Cardinality({cleaned_df.rows[m]["region"] : m \in DOMAIN cleaned_df.rows}) = 4
  /\ warnings_of("date") = <<Warning("date", "date", 2)>>
  /\ warnings_of("region") = <<>>
  /\ warnings_of("numeric") = <<>>

\* The rows the categorical pass has to rewrite: region present, outside valid_regions.
outside_rows ==
  {i \in DOMAIN parseable_rows :
     /\ notna(parseable_rows[i]["region"])
     /\ parseable_rows[i]["region"] \notin valid_regions}

count_in_kept(v) == Cardinality({i \in DOMAIN parseable_rows : parseable_rows[i]["region"] = v})
kept_regions == {parseable_rows[i]["region"] : i \in DOMAIN parseable_rows} \ {NaN}

(* C9: the categorical pass rewrites to 'Unknown' exactly the regions that *)
(* are present and outside the 4 most frequent values, keeps the others,   *)
(* leaves missing regions to the defaulting pass and reports the number of *)
(* rows it rewrote, so at most 4 values besides 'Unknown' remain.          *)
C9_RegionRepairExact ==
  (cleaned /\ HasCol(processed_df, "region") /\ parseable_rows # <<>>) =>
     /\ valid_regions \subseteq kept_regions
     /\ Cardinality(valid_regions) = Min(FOUR, Cardinality(kept_regions))
     /\ \A a \in valid_regions, b \in kept_regions \ valid_regions :
           count_in_kept(a) >= count_in_kept(b)
     /\ \A i \in DOMAIN parseable_rows :
           /\ cleaned_df.rows[i]["region"] =
                IF isna(parseable_rows[i]["region"]) \/ i \in outside_rows
                THEN Str("Unknown") ELSE parseable_rows[i]["region"]
           /\ region_repair(kept_df, valid_regions).df.rows[i]["region"] =
                IF i \in outside_rows THEN Str("Unknown") ELSE parseable_rows[i]["region"]
     /\ warnings_of("region") =
          IF outside_rows # {}
          THEN <<Warning("region", "region", Cardinality(outside_rows))>> ELSE <<>>
     /\ Cardinality({cleaned_df.rows[i]["region"] : i \in DOMAIN cleaned_df.rows}
                      \ {Str("Unknown")}) <= FOUR

\* C9's case: a table with a fifth region and a missing region was cleaned.
C9_Witness ==
  /\ cleaned /\ HasCol(processed_df, "region")
  /\ outside_rows # {}
  /\ Cardinality(valid_regions) = FOUR
  /\ \E i \in DOMAIN parseable_rows : isna(parseable_rows[i]["region"])
  /\ \E w \in Range(log) : w.pass = "region" /\ w.count >= 1

====
